---- MODULE Spec2Model ----
(***************************************************************************)
(* modern-fullstack-cli (src/src/index.js): the shared rename logic        *)
(* renameProject, the `create` and `rename` commands that call it, and the *)
(* recursive file lister getFiles.                                         *)
(*                                                                         *)
(* Text is modelled by TLA+ strings, on which TLC evaluates Len, SubSeq    *)
(* and \o; every JavaScript string method the program uses is an operator  *)
(* below, computed position by position as the method computes it.         *)
(***************************************************************************)
EXTENDS Integers, Sequences, FiniteSets, TLC

(***************************************************************************)
(* Bounds of the model.                                                    *)
(***************************************************************************)
\* entries listed under <root>/packages
MaxPkgs == 2
\* successive calls of renameProject on one tree (the rename command makes 2)
MaxRuns == 2
\* nodes (directories and files) of a tree handed to getFiles, its root included
MaxNodes == 4

(***************************************************************************)
(* JavaScript string methods.                                              *)
(***************************************************************************)
\* s.startsWith(p)
StartsWith(s, p) == Len(p) <= Len(s) /\ SubSeq(s, 1, Len(p)) = p

\* the test of a regular expression /p$/ for a literal p
EndsWith(s, p) == Len(p) <= Len(s) /\ SubSeq(s, Len(s) - Len(p) + 1, Len(s)) = p

RECURSIVE IndexFrom(_, _, _)
IndexFrom(s, p, i) ==
    IF i + Len(p) - 1 > Len(s) THEN 0
    ELSE IF SubSeq(s, i, i + Len(p) - 1) = p THEN i
    ELSE IndexFrom(s, p, i + 1)

\* s.indexOf(p) + 1: the position of the first occurrence of p, 0 when none
IndexOf(s, p) == IndexFrom(s, p, 1)

\* s.includes(p)
Includes(s, p) == IndexOf(s, p) # 0

\* s.replace(p, r) for a string pattern p: the first occurrence only
ReplaceFirst(s, p, r) ==
    LET i == IndexOf(s, p)
    IN  IF i = 0 THEN s
        ELSE SubSeq(s, 1, i - 1) \o r \o SubSeq(s, i + Len(p), Len(s))

\* s.split(p).join(r), and s.replace(/p/g, r) for a literal p: every
\* occurrence, left to right, without rescanning what was inserted
RECURSIVE ReplaceAll(_, _, _)
ReplaceAll(s, p, r) ==
    LET i == IndexOf(s, p)
    IN  IF i = 0 THEN s
        ELSE SubSeq(s, 1, i - 1) \o r
                 \o ReplaceAll(SubSeq(s, i + Len(p), Len(s)), p, r)

\* s.split(sep)[0]
BeforeFirst(s, sep) ==
    LET i == IndexOf(s, sep)
    IN  IF i = 0 THEN s ELSE SubSeq(s, 1, i - 1)

LowerChars == "abcdefghijklmnopqrstuvwxyz"
UpperChars == "ABCDEFGHIJKLMNOPQRSTUVWXYZ"

\* c.toUpperCase() for one character
ToUpperCase(c) ==
    LET i == IndexOf(LowerChars, c)
    IN  IF i = 0 THEN c ELSE SubSeq(UpperChars, i, i)

\* w.charAt(0).toUpperCase() + w.slice(1)
Capitalize(w) ==
    IF Len(w) = 0 THEN "" ELSE ToUpperCase(SubSeq(w, 1, 1)) \o SubSeq(w, 2, Len(w))

\* newName.split("-").map(capitalize).join(" ")
RECURSIVE TitleCase(_)
TitleCase(s) ==
    LET i == IndexOf(s, "-")
    IN  IF i = 0 THEN Capitalize(s)
        ELSE Capitalize(SubSeq(s, 1, i - 1)) \o " "
                 \o TitleCase(SubSeq(s, i + 1, Len(s)))

\* the characters of the class [a-z0-9-_]
NameChars == "abcdefghijklmnopqrstuvwxyz0123456789-_"

\* /^[a-z0-9-_]+$/.test(name)
ValidName(name) ==
    /\ Len(name) >= 1
    /\ \A i \in 1..Len(name) : Includes(NameChars, SubSeq(name, i, i))

\* /\.(ts|tsx|js|jsx)$/.test(file)
IsSourceFile(file) ==
    \/ EndsWith(file, ".ts")
    \/ EndsWith(file, ".tsx")
    \/ EndsWith(file, ".js")
    \/ EndsWith(file, ".jsx")

(***************************************************************************)
(* Literals of the program.                                                *)
(***************************************************************************)
\* another fallback than the program's
FallbackScopeAcme == "@acme"

\* let currentScopeFull = "@repo"
FallbackScopeFull == "@repo"
\* the literal of the source-file and documentation rewrite
BoilerplateId == "modern-fullstack-boilerplate"
\* the display name of the documentation rewrite
BoilerplateTitle == "Modern Fullstack Boilerplate"

(***************************************************************************)
(* State.                                                                  *)
(***************************************************************************)
VARIABLES
    \* the project tree on disk
    rootPkg,          \* <root>/package.json: [state, name]
    packages,         \* the entries of <root>/packages, in readdir order
    readme,           \* <root>/README.md: [exists, content]
    \* renameProject(rootDir, newName)
    newName,          \* its argument
    rp,               \* where the call stands
    idx,              \* the position of the "Update packages" loop
    currentScopeFull, \* the local of that name
    runs,             \* calls that have returned
    \* what the tree was: at the start, after the first call, at a throw
    origTree,
    firstTree,
    thrownTree,
    \* the command line and the directory the command works in
    cmd,              \* "create", "rename", or "none" (renameProject alone)
    argName,          \* the name argument, "" when omitted
    cpc,              \* where the command's action stands
    targetExists,     \* rename: fs.existsSync(targetDir) at line 149
    targetIsCwd,      \* rename: targetDir is process.cwd()
    siblings,         \* the other entries of the directory that holds the project
    projectDir,       \* the base name of the project directory
    origDir,          \* what it was when the command started
    cloned,           \* create: git clone has made the directory
    relocated,        \* rename: fs.rename has moved the directory
    log,              \* what the command has reported
    \* getFiles(dir)
    gfTree,           \* the directory tree below dir
    gfState,          \* per node: where its stat / readdir / join stands
    gfResult          \* per node: what its promise resolved to

Tree == [root |-> rootPkg, packages |-> packages, readme |-> readme]

treeVars == <<rootPkg, packages, readme>>
renamerVars == <<newName, rp, idx, currentScopeFull, runs, origTree, firstTree, thrownTree>>
cliVars == <<cmd, argName, cpc, targetExists, targetIsCwd, siblings, projectDir, origDir,
             cloned, relocated, log>>
gfVars == <<gfTree, gfState, gfResult>>
vars == <<treeVars, renamerVars, cliVars, gfVars>>

(***************************************************************************)
(* Project trees. A manifest is "ok" (parses), "bad" (fs.readJson throws)  *)
(* or "none" (fs.existsSync is false); dependencies and devDependencies    *)
(* are maps from a package name to a version string, the empty map when    *)
(* the manifest has none.                                                  *)
(***************************************************************************)
EmptyMap == [k \in {} |-> ""]
NoFile == [exists |-> FALSE, content |-> ""]

PkgUi ==
    [dir |-> "ui", isDir |-> TRUE, manifest |-> "ok", name |-> "@repo/ui",
     dependencies |-> ("react" :> "18.2.0"),
     devDependencies |-> ("@repo/tsconfig" :> "workspace:*"),
     hasSrc |-> TRUE,
     src |-> ("index.ts" :> "export * from '@repo/ui/button';"),
     html |-> NoFile]

PkgFrontend ==
    [dir |-> "frontend", isDir |-> TRUE, manifest |-> "ok", name |-> "@repo/frontend",
     dependencies |-> ("@repo/ui" :> "workspace:*") @@ ("@app/ui" :> "1.0.0"),
     devDependencies |-> ("vite" :> "5.0.0"),
     hasSrc |-> TRUE,
     src |-> ("main.tsx" :> "import '@repo/ui'; // modern-fullstack-boilerplate")
               @@ ("notes.md" :> "@repo/ui modern-fullstack-boilerplate"),
     html |-> [exists |-> TRUE,
               content |-> "<title>Modern Fullstack Boilerplate</title>"]]

PkgApi ==
    [dir |-> "api", isDir |-> TRUE, manifest |-> "ok", name |-> "@acme/api",
     dependencies |-> ("@acme/db" :> "1.0.0") @@ ("@repo/ui" :> "2.0.0"),
     devDependencies |-> EmptyMap,
     hasSrc |-> TRUE,
     src |-> ("app.js" :> "require('@acme/db'); require('@repo/ui');"),
     html |-> NoFile]

PkgServer ==
    [dir |-> "server", isDir |-> TRUE, manifest |-> "ok", name |-> "server",
     dependencies |-> ("@repo/ui" :> "workspace:*") @@ ("@acme/db" :> "1.0.0")
                        @@ ("express" :> "4.18.0"),
     devDependencies |-> ("@repo/eslint" :> "workspace:*"),
     hasSrc |-> TRUE,
     src |-> ("server.js" :> "const id = 'modern-fullstack-boilerplate';"),
     html |-> NoFile]

PkgBroken ==
    [dir |-> "broken", isDir |-> TRUE, manifest |-> "bad", name |-> "",
     dependencies |-> EmptyMap, devDependencies |-> EmptyMap,
     hasSrc |-> TRUE,
     src |-> ("x.ts" :> "import '@repo/ui';"),
     html |-> NoFile]

PkgAssets ==
    [dir |-> "assets", isDir |-> TRUE, manifest |-> "none", name |-> "",
     dependencies |-> EmptyMap, devDependencies |-> EmptyMap,
     hasSrc |-> TRUE,
     src |-> ("logo.ts" :> "import '@repo/ui';"),
     html |-> NoFile]

PkgPlainFile ==
    [dir |-> ".gitkeep", isDir |-> FALSE, manifest |-> "none", name |-> "",
     dependencies |-> EmptyMap, devDependencies |-> EmptyMap,
     hasSrc |-> FALSE, src |-> EmptyMap, html |-> NoFile]

PkgChoices ==
    {PkgUi, PkgFrontend, PkgApi, PkgServer, PkgBroken, PkgAssets, PkgPlainFile}

\* the listings of <root>/packages: up to MaxPkgs entries of distinct names,
\* in any order (readdir's order is the file system's)
PkgLists ==
    {l \in UNION {[1..n -> PkgChoices] : n \in 0..MaxPkgs} :
        \A i, j \in DOMAIN l : i # j => l[i].dir # l[j].dir}

RootChoices ==
    {[state |-> "ok", name |-> "modern-fullstack-boilerplate"],
     [state |-> "ok", name |-> "my-old-root"],
     [state |-> "bad", name |-> ""],
     [state |-> "none", name |-> ""]}

ReadmeChoices ==
    {NoFile,
     [exists |-> TRUE,
      content |-> "# Modern Fullstack Boilerplate (modern-fullstack-boilerplate)"]}

\* names that pass /^[a-z0-9-_]+$/
ValidNames == {"app", "repo", "modern-fullstack-boilerplate-2"}

(***************************************************************************)
(* renameProject, lines 203-323.                                           *)
(***************************************************************************)
\* ScanScope with a try/catch around fs.readJson that the code does not have
RECURSIVE ScanScopeSkippingBad(_, _)
ScanScopeSkippingBad(pkgs, i) ==
    IF i > Len(pkgs) THEN [threw |-> FALSE, scope |-> "@repo"]
    ELSE IF pkgs[i].manifest # "ok" THEN ScanScopeSkippingBad(pkgs, i + 1)
    ELSE IF StartsWith(pkgs[i].name, "@") /\ Includes(pkgs[i].name, "/")
         THEN [threw |-> FALSE, scope |-> BeforeFirst(pkgs[i].name, "/")]
    ELSE ScanScopeSkippingBad(pkgs, i + 1)

\* lines 212-222: the first manifest whose name is "@x/y" gives the scope;
\* a manifest that does not parse makes fs.readJson throw
RECURSIVE ScanScope(_, _)
ScanScope(pkgs, i) ==
    IF i > Len(pkgs) THEN [threw |-> FALSE, scope |-> FallbackScopeFull]
    ELSE IF pkgs[i].manifest = "none" THEN ScanScope(pkgs, i + 1)
    ELSE IF pkgs[i].manifest = "bad" THEN [threw |-> TRUE, scope |-> ""]
    ELSE IF StartsWith(pkgs[i].name, "@") /\ Includes(pkgs[i].name, "/")
         THEN [threw |-> FALSE, scope |-> BeforeFirst(pkgs[i].name, "/")]
    ELSE ScanScope(pkgs, i + 1)

\* line 225
OldScopeToken(scopeFull) == scopeFull \o "/"
\* a new scope token without its closing slash
NewScopeTokenNoSlash(name) == "@" \o name

\* line 226
NewScopeToken(name) == "@" \o name \o "/"

\* lines 251-253
RenamedName(name, oldTok, newTok) ==
    IF StartsWith(name, oldTok) THEN ReplaceFirst(name, oldTok, newTok) ELSE name

\* lines 259-261: data.dependencies[newDep] = data.dependencies[dep];
\* delete data.dependencies[dep]
RekeyOne(m, dep, oldTok, newTok) ==
    LET newDep == ReplaceFirst(dep, oldTok, newTok)
        set == [k \in DOMAIN m \cup {newDep} |-> IF k = newDep THEN m[dep] ELSE m[k]]
    IN  [k \in DOMAIN set \ {dep} |-> set[k]]

\* lines 257-263: the loop over Object.keys(data.dependencies), a snapshot of
\* the keys taken before the loop. No key the loop adds starts with the old
\* token unless the two tokens are equal, so the order of the keys does not
\* change the result.
RECURSIVE RekeyLoop(_, _, _, _)
RekeyLoop(m, keys, oldTok, newTok) ==
    IF keys = {} THEN m
    ELSE LET dep == CHOOSE k \in keys : TRUE
             next == IF StartsWith(dep, oldTok)
                     THEN RekeyOne(m, dep, oldTok, newTok)
                     ELSE m
         IN  RekeyLoop(next, keys \ {dep}, oldTok, newTok)

Rekeyed(m, oldTok, newTok) == RekeyLoop(m, DOMAIN m, oldTok, newTok)

\* lines 284-297: the two substitutions of one source file, in sequence
RewrittenSource(content, oldTok, newTok, name) ==
    LET scoped == IF Includes(content, oldTok)
                  THEN ReplaceAll(content, oldTok, newTok)
                  ELSE content
    IN  IF Includes(scoped, BoilerplateId)
        THEN ReplaceAll(scoped, BoilerplateId, name)
        ELSE scoped

\* lines 279-300: every file getFiles lists under <pkg>/src
RewrittenSrc(p, oldTok, newTok, name) ==
    IF ~p.hasSrc THEN p.src
    ELSE [f \in DOMAIN p.src |->
            IF IsSourceFile(f)
            THEN RewrittenSource(p.src[f], oldTok, newTok, name)
            ELSE p.src[f]]

\* lines 248-300: one package that has a manifest that parses
UpdatedPackage(p, oldTok, newTok, name) ==
    [p EXCEPT !.name = RenamedName(p.name, oldTok, newTok),
              !.dependencies = Rekeyed(p.dependencies, oldTok, newTok),
              !.devDependencies = Rekeyed(p.devDependencies, oldTok, newTok),
              !.src = RewrittenSrc(p, oldTok, newTok, name)]

\* lines 313-320: one documentation file
RewrittenDoc(file, name) ==
    IF ~file.exists THEN file
    ELSE [file EXCEPT !.content =
            ReplaceAll(ReplaceAll(file.content, BoilerplateTitle, TitleCase(name)),
                       BoilerplateId, name)]

\* lines 206-226
DetectScope ==
    /\ rp = "detect"
    /\ LET found == ScanScope(packages, 1)
       IN  IF found.threw
           THEN /\ rp' = "threw"
                /\ thrownTree' = Tree
                /\ UNCHANGED currentScopeFull
           ELSE /\ rp' = "root"
                /\ currentScopeFull' = found.scope
                /\ UNCHANGED thrownTree
    /\ UNCHANGED <<treeVars, newName, idx, runs, origTree, firstTree>>
    /\ UNCHANGED <<cliVars, gfVars>>

\* lines 228-235
UpdateRoot ==
    /\ rp = "root"
    /\ IF rootPkg.state = "bad"
       THEN /\ rp' = "threw"
            /\ thrownTree' = Tree
            /\ UNCHANGED <<rootPkg, idx>>
       ELSE /\ rp' = "pkgs"
            /\ idx' = 1
            /\ rootPkg' = IF rootPkg.state = "ok"
                          THEN [rootPkg EXCEPT !.name = newName]
                          ELSE rootPkg
            /\ UNCHANGED thrownTree
    /\ UNCHANGED <<packages, readme, newName, currentScopeFull, runs, origTree, firstTree>>
    /\ UNCHANGED <<cliVars, gfVars>>

\* lines 240-302: one turn of the loop
UpdatePackage ==
    /\ rp = "pkgs"
    /\ idx <= Len(packages)
    /\ LET p == packages[idx]
       IN  IF p.isDir /\ p.manifest = "bad"
           THEN /\ rp' = "threw"
                /\ thrownTree' = Tree
                /\ UNCHANGED <<packages, idx>>
           ELSE /\ idx' = idx + 1
                /\ packages' =
                     IF p.isDir /\ p.manifest = "ok"
                     THEN [packages EXCEPT ![idx] =
                             UpdatedPackage(p, OldScopeToken(currentScopeFull),
                                            NewScopeToken(newName), newName)]
                     ELSE packages
                /\ UNCHANGED <<rp, thrownTree>>
    /\ UNCHANGED <<rootPkg, readme, newName, currentScopeFull, runs, origTree, firstTree>>
    /\ UNCHANGED <<cliVars, gfVars>>

\* lines 305-322: README.md and packages/frontend/index.html, then the return
UpdateExtras ==
    /\ rp = "pkgs"
    /\ idx > Len(packages)
    /\ readme' = RewrittenDoc(readme, newName)
    /\ packages' = [i \in DOMAIN packages |->
                      IF packages[i].dir = "frontend" /\ packages[i].isDir
                      THEN [packages[i] EXCEPT !.html = RewrittenDoc(@, newName)]
                      ELSE packages[i]]
    /\ rp' = "returned"
    /\ runs' = runs + 1
    /\ firstTree' = IF runs = 0
                    THEN [root |-> rootPkg, packages |-> packages', readme |-> readme']
                    ELSE firstTree
    /\ UNCHANGED <<rootPkg, newName, idx, currentScopeFull, origTree, thrownTree>>
    /\ UNCHANGED <<cliVars, gfVars>>

\* a caller starts renameProject: on a fresh tree, or again after it returned
\* (lines 169 and 171)
Invoke ==
    /\ cmd = "none"
    /\ rp \in {"idle", "returned"}
    /\ runs < MaxRuns
    /\ rp' = "detect"
    /\ UNCHANGED <<treeVars, newName, idx, currentScopeFull, runs, origTree, firstTree, thrownTree>>
    /\ UNCHANGED <<cliVars, gfVars>>

(***************************************************************************)
(* The create command, lines 69-138, and the rename command, lines         *)
(* 141-198. cpc is "exited" after process.exit(1) and "done" when the      *)
(* action has returned.                                                    *)
(***************************************************************************)
\* what the user may type at the prompt
PromptInputs == {"app", "MyApp"}

\* lines 74-89: the argument is taken as it is; only its absence prompts
CreateStart ==
    /\ cmd = "create"
    /\ cpc = "start"
    /\ IF argName = ""
       THEN cpc' = "prompt" /\ UNCHANGED newName
       ELSE cpc' = "checkDir" /\ newName' = argName
    /\ UNCHANGED <<treeVars, rp, idx, currentScopeFull, runs, origTree, firstTree, thrownTree>>
    /\ UNCHANGED <<cmd, argName, targetExists, targetIsCwd, siblings, projectDir, origDir,
                   cloned, relocated, log>>
    /\ UNCHANGED gfVars

\* lines 77-88: inquirer asks again until validate returns true
Prompt ==
    /\ cmd = "create"
    /\ cpc = "prompt"
    /\ \E input \in PromptInputs :
          IF ValidName(input)
          THEN /\ newName' = input
               /\ cpc' = "checkDir"
               /\ UNCHANGED log
          ELSE /\ log' = log \cup {"prompt: use only lowercase letters"}
               /\ UNCHANGED <<newName, cpc>>
    /\ UNCHANGED <<treeVars, rp, idx, currentScopeFull, runs, origTree, firstTree, thrownTree>>
    /\ UNCHANGED <<cmd, argName, targetExists, targetIsCwd, siblings, projectDir, origDir,
                   cloned, relocated>>
    /\ UNCHANGED gfVars

\* lines 91-96: targetDir is <cwd>/<projectName>
CreateCheckDir ==
    /\ cmd = "create"
    /\ cpc = "checkDir"
    /\ IF newName \in siblings
       THEN /\ log' = log \cup {"error: directory already exists"}
            /\ cpc' = "exited"
       ELSE /\ cpc' = "clone"
            /\ UNCHANGED log
    /\ UNCHANGED <<treeVars, renamerVars>>
    /\ UNCHANGED <<cmd, argName, targetExists, targetIsCwd, siblings, projectDir, origDir,
                   cloned, relocated>>
    /\ UNCHANGED gfVars

\* lines 98-109: git clone succeeds and makes the directory, or fails
Clone ==
    /\ cmd = "create"
    /\ cpc = "clone"
    /\ \E ok \in BOOLEAN :
          IF ok
          THEN /\ cloned' = TRUE
               /\ projectDir' = newName
               /\ cpc' = "gitInit"
               /\ UNCHANGED log
          ELSE /\ log' = log \cup {"fail: clone"}
               /\ cpc' = "exited"
               /\ UNCHANGED <<cloned, projectDir>>
    /\ UNCHANGED <<treeVars, renamerVars>>
    /\ UNCHANGED <<cmd, argName, targetExists, targetIsCwd, siblings, origDir, relocated>>
    /\ UNCHANGED gfVars

\* lines 111-125: the git history is reset or not, then renameProject is called
ResetGitAndCall ==
    /\ cmd = "create"
    /\ cpc = "gitInit"
    /\ \E ok \in BOOLEAN :
          log' = IF ok THEN log ELSE log \cup {"warn: git history not reset"}
    /\ rp' = "detect"
    /\ cpc' = "run1"
    /\ UNCHANGED <<treeVars, newName, idx, currentScopeFull, runs, origTree, firstTree, thrownTree>>
    /\ UNCHANGED <<cmd, argName, targetExists, targetIsCwd, siblings, projectDir, origDir,
                   cloned, relocated>>
    /\ UNCHANGED gfVars

\* lines 126-137: the call returned, or threw into the catch of line 127
CreateFinish ==
    /\ cmd = "create"
    /\ cpc = "run1"
    /\ rp \in {"returned", "threw"}
    /\ log' = log \cup (IF rp = "threw" THEN {"fail: rename"} ELSE {})
                  \cup {"ok: project created"}
    /\ cpc' = "done"
    /\ UNCHANGED <<treeVars, renamerVars>>
    /\ UNCHANGED <<cmd, argName, targetExists, targetIsCwd, siblings, projectDir, origDir,
                   cloned, relocated>>
    /\ UNCHANGED gfVars

\* lines 146-169: the two entry checks, then the first call of renameProject
RenameStart ==
    /\ cmd = "rename"
    /\ cpc = "start"
    /\ IF ~targetExists
       THEN /\ log' = log \cup {"error: directory does not exist"}
            /\ cpc' = "exited"
            /\ UNCHANGED <<newName, rp>>
       ELSE IF ~ValidName(argName)
       THEN /\ log' = log \cup {"error: invalid name"}
            /\ cpc' = "exited"
            /\ UNCHANGED <<newName, rp>>
       ELSE /\ newName' = argName
            /\ rp' = "detect"
            /\ cpc' = "run1"
            /\ UNCHANGED log
    /\ UNCHANGED <<treeVars, idx, currentScopeFull, runs, origTree, firstTree, thrownTree>>
    /\ UNCHANGED <<cmd, argName, targetExists, targetIsCwd, siblings, projectDir, origDir,
                   cloned, relocated>>
    /\ UNCHANGED gfVars

\* lines 170-171: the first call returned; renameProject is called again
RenameSecondCall ==
    /\ cmd = "rename"
    /\ cpc = "run1"
    /\ rp = "returned"
    /\ rp' = "detect"
    /\ cpc' = "run2"
    /\ UNCHANGED <<treeVars, newName, idx, currentScopeFull, runs, origTree, firstTree, thrownTree>>
    /\ UNCHANGED <<cmd, argName, targetExists, targetIsCwd, siblings, projectDir, origDir,
                   cloned, relocated, log>>
    /\ UNCHANGED gfVars

\* a folder move that does not look for an entry of the new name
FolderMayMoveUnchecked == ~targetIsCwd

\* lines 175-177: not inside the folder, and <parent>/<newName> does not exist
FolderMayMove == ~targetIsCwd /\ newName \notin (siblings \cup {projectDir})

\* lines 172-193: the second call returned; the folder is renamed or not
RenameFolder ==
    /\ cmd = "rename"
    /\ cpc = "run2"
    /\ rp = "returned"
    /\ IF FolderMayMove
       THEN /\ projectDir' = newName
            /\ relocated' = TRUE
            /\ log' = log \cup {"ok: folder renamed"}
       ELSE /\ log' = log \cup (IF targetIsCwd
                                 THEN {"warn: inside the folder"}
                                 ELSE {"warn: directory already exists"})
            /\ UNCHANGED <<projectDir, relocated>>
    /\ cpc' = "done"
    /\ UNCHANGED <<treeVars, renamerVars>>
    /\ UNCHANGED <<cmd, argName, targetExists, targetIsCwd, siblings, origDir, cloned>>
    /\ UNCHANGED gfVars

\* a catch that ends the process
RenameCatchExits ==
    /\ cmd = "rename"
    /\ cpc \in {"run1", "run2"}
    /\ rp = "threw"
    /\ log' = log \cup {"fail: rename"}
    /\ cpc' = "exited"
    /\ UNCHANGED <<treeVars, renamerVars>>
    /\ UNCHANGED <<cmd, argName, targetExists, targetIsCwd, siblings, projectDir, origDir,
                   cloned, relocated>>
    /\ UNCHANGED gfVars

\* lines 194-197: either call threw
RenameCatch ==
    /\ cmd = "rename"
    /\ cpc \in {"run1", "run2"}
    /\ rp = "threw"
    /\ log' = log \cup {"fail: rename"}
    /\ cpc' = "done"
    /\ UNCHANGED <<treeVars, renamerVars>>
    /\ UNCHANGED <<cmd, argName, targetExists, targetIsCwd, siblings, projectDir, origDir,
                   cloned, relocated>>
    /\ UNCHANGED gfVars

(***************************************************************************)
(* getFiles, lines 325-334. A tree has nodes 1..n, node 1 the directory    *)
(* getFiles is called on; the children of a directory are listed in the    *)
(* order of their numbers. A node's path is the sequence of nodes from the *)
(* root to it (path.resolve(dir, subdir)). What a file's callback returns  *)
(* (its path, which concat appends) is the one-element list of it.         *)
(***************************************************************************)
GfTrees ==
    {t \in UNION {[n : {n}, parent : [1..n -> 0..(n - 1)], isDir : [1..n -> BOOLEAN]]
                     : n \in 1..MaxNodes} :
        /\ t.parent[1] = 0
        /\ t.isDir[1]
        /\ \A i \in 2..t.n : /\ t.parent[i] \in 1..(i - 1)
                             /\ t.isDir[t.parent[i]]}

NoGfTree == [n |-> 0, parent |-> <<>>, isDir |-> <<>>]

Children(t, d) == {i \in 1..t.n : t.parent[i] = d}

RECURSIVE Path(_, _)
Path(t, i) == IF t.parent[i] = 0 THEN <<i>> ELSE Append(Path(t, t.parent[i]), i)

\* a reduce that keeps only the first sibling's list
RECURSIVE ConcatFirstOnly(_, _)
ConcatFirstOnly(results, kids) ==
    IF kids = {} THEN <<>>
    ELSE results[CHOOSE k \in kids : \A l \in kids : k <= l]

\* line 333: files.reduce((a, f) => a.concat(f), []), in the order of subdirs
RECURSIVE ConcatAll(_, _)
ConcatAll(results, kids) ==
    IF kids = {} THEN <<>>
    ELSE LET k == CHOOSE m \in kids : \A l \in kids : m <= l
         IN  results[k] \o ConcatAll(results, kids \ {k})

\* line 326 completes, lines 327-330 run up to each await fs.stat
GfReaddir(d) ==
    /\ d \in 1..gfTree.n
    /\ gfState[d] = "readdir"
    /\ gfState' = [i \in 1..gfTree.n |->
                     IF i = d THEN "join"
                     ELSE IF i \in Children(gfTree, d) THEN "stat"
                     ELSE gfState[i]]
    /\ UNCHANGED <<gfTree, gfResult>>
    /\ UNCHANGED <<treeVars, renamerVars, cliVars>>

\* line 330: a stat completes; a directory is handed to getFiles, a file's
\* callback returns its path
GfStat(i) ==
    /\ i \in 1..gfTree.n
    /\ gfState[i] = "stat"
    /\ IF gfTree.isDir[i]
       THEN /\ gfState' = [gfState EXCEPT ![i] = "readdir"]
            /\ UNCHANGED gfResult
       ELSE /\ gfState' = [gfState EXCEPT ![i] = "done"]
            /\ gfResult' = [gfResult EXCEPT ![i] = <<Path(gfTree, i)>>]
    /\ UNCHANGED gfTree
    /\ UNCHANGED <<treeVars, renamerVars, cliVars>>

\* lines 327 and 333: Promise.all resolves once every sibling has, then the
\* reduce makes the list
GfJoin(d) ==
    /\ d \in 1..gfTree.n
    /\ gfState[d] = "join"
    /\ \A k \in Children(gfTree, d) : gfState[k] = "done"
    /\ gfState' = [gfState EXCEPT ![d] = "done"]
    /\ gfResult' = [gfResult EXCEPT ![d] = ConcatAll(gfResult, Children(gfTree, d))]
    /\ UNCHANGED gfTree
    /\ UNCHANGED <<treeVars, renamerVars, cliVars>>

(***************************************************************************)
(* Specifications.                                                         *)
(***************************************************************************)
RenamerIdle ==
    /\ rp = "idle"
    /\ idx = 1
    /\ currentScopeFull = FallbackScopeFull
    /\ runs = 0
    /\ origTree = Tree
    /\ firstTree = Tree
    /\ thrownTree = Tree

NoCommand ==
    /\ cmd = "none"
    /\ argName = ""
    /\ cpc = "start"
    /\ targetExists = TRUE
    /\ targetIsCwd = FALSE
    /\ siblings = {}
    /\ projectDir = "old-app"
    /\ origDir = "old-app"
    /\ cloned = FALSE
    /\ relocated = FALSE
    /\ log = {}

NoGetFiles ==
    /\ gfTree = NoGfTree
    /\ gfState = <<>>
    /\ gfResult = <<>>

\* renameProject on any tree, with any valid name, up to MaxRuns times
Init ==
    /\ rootPkg \in RootChoices
    /\ packages \in PkgLists
    /\ readme \in ReadmeChoices
    /\ newName \in ValidNames
    /\ RenamerIdle
    /\ NoCommand
    /\ NoGetFiles

Next == Invoke \/ DetectScope \/ UpdateRoot \/ UpdatePackage \/ UpdateExtras

Spec == Init /\ [][Next]_vars

\* the trees the commands are run on
CliPkgLists ==
    {l \in UNION {[1..n -> {PkgUi, PkgBroken}] : n \in 0..MaxPkgs} :
        \A i, j \in DOMAIN l : i # j => l[i].dir # l[j].dir}

\* the name argument: omitted, valid, or not matching the pattern
ArgNames == {"", "app", "repo", "MyApp"}

\* one command line; for create the tree is what the clone will hold
InitCli ==
    /\ rootPkg \in {[state |-> "ok", name |-> "modern-fullstack-boilerplate"],
                    [state |-> "none", name |-> ""]}
    /\ packages \in CliPkgLists
    /\ readme = [exists |-> TRUE,
                 content |-> "# Modern Fullstack Boilerplate (modern-fullstack-boilerplate)"]
    /\ newName = ""
    /\ RenamerIdle
    /\ cmd \in {"create", "rename"}
    /\ argName \in ArgNames
    /\ cpc = "start"
    /\ siblings \in {{}, {"app"}}
    /\ IF cmd = "rename"
       THEN /\ targetExists \in BOOLEAN
            /\ targetIsCwd \in BOOLEAN
            /\ projectDir \in {"old-app", "repo"}
       ELSE /\ targetExists = FALSE
            /\ targetIsCwd = FALSE
            /\ projectDir = ""
    /\ origDir = projectDir
    /\ cloned = FALSE
    /\ relocated = FALSE
    /\ log = {}
    /\ NoGetFiles

NextCli ==
    \/ CreateStart \/ Prompt \/ CreateCheckDir \/ Clone \/ ResetGitAndCall \/ CreateFinish
    \/ RenameStart \/ RenameSecondCall \/ RenameFolder \/ RenameCatch
    \/ DetectScope \/ UpdateRoot \/ UpdatePackage \/ UpdateExtras

SpecCli == InitCli /\ [][NextCli]_vars

InitGetFiles ==
    /\ rootPkg = [state |-> "none", name |-> ""]
    /\ packages = <<>>
    /\ readme = NoFile
    /\ newName = "app"
    /\ RenamerIdle
    /\ NoCommand
    /\ gfTree \in GfTrees
    /\ gfState = [i \in 1..gfTree.n |-> IF i = 1 THEN "readdir" ELSE "none"]
    /\ gfResult = [i \in 1..gfTree.n |-> <<>>]

NextGetFiles == \E i \in 1..MaxNodes : GfReaddir(i) \/ GfStat(i) \/ GfJoin(i)

\* every stat and readdir that was issued completes, and a promise whose
\* inputs have all resolved resolves
SpecGetFiles == InitGetFiles /\ [][NextGetFiles]_vars /\ WF_vars(NextGetFiles)

(***************************************************************************)
(* Properties of renameProject, checked under Spec.                        *)
(***************************************************************************)
IsScoped(name) == StartsWith(name, "@") /\ Includes(name, "/")
ScopeOf(name) == BeforeFirst(name, "/")
AfterFirst(s, sep) == SubSeq(s, IndexOf(s, sep) + Len(sep), Len(s))

Readable(tree) == {i \in DOMAIN tree.packages : tree.packages[i].manifest = "ok"}
Unparseable(tree) == {i \in DOMAIN tree.packages : tree.packages[i].manifest = "bad"}

FirstRunReturned == rp = "returned" /\ runs = 1
FirstRunEnded == FirstRunReturned \/ (rp = "threw" /\ runs = 0)

DetectedOldToken == currentScopeFull \o "/"
TargetToken == "@" \o newName \o "/"

\* every sub-package manifest of the original tree is named under one scope
OneScope ==
    /\ Readable(origTree) # {}
    /\ \A i \in Readable(origTree) : IsScoped(origTree.packages[i].name)
    /\ \A i, j \in Readable(origTree) :
          ScopeOf(origTree.packages[i].name) = ScopeOf(origTree.packages[j].name)

Unscoped(k, tok) == SubSeq(k, Len(tok) + 1, Len(k))

\* C2 for one map: old-scope keys are now under the new scope with their
\* version, every other key is still there with its version
RekeyedAsClaimed(before, after) ==
    \A k \in DOMAIN before :
        IF StartsWith(k, DetectedOldToken)
        THEN LET moved == TargetToken \o Unscoped(k, DetectedOldToken)
             IN  moved \in DOMAIN after /\ after[moved] = before[k]
        ELSE k \in DOMAIN after /\ after[k] = before[k]

\* C2: in dependencies and in devDependencies of every sub-package manifest,
\* each key under the old scope is replaced by the same key under the new
\* scope with its version string, and every other key keeps its version
\* string, also when a key under the new scope existed before.
C2_DependenciesRekeyed ==
    FirstRunReturned =>
        \A i \in Readable(origTree) :
            /\ RekeyedAsClaimed(origTree.packages[i].dependencies,
                                packages[i].dependencies)
            /\ RekeyedAsClaimed(origTree.packages[i].devDependencies,
                                packages[i].devDependencies)

\* C3: a second call of renameProject with the same newName changes no
\* manifest, no source file and no documentation file.
C3_SecondRunChangesNothing ==
    (rp = "returned" /\ runs = 2) => Tree = firstTree

\* the scope the detection would give if unparseable manifests were skipped
ScopeOfReadable ==
    ScanScope(SelectSeq(origTree.packages, LAMBDA p : p.manifest = "ok"), 1).scope

SameManifestAndSources(p, q) ==
    /\ p.name = q.name
    /\ p.dependencies = q.dependencies
    /\ p.devDependencies = q.devDependencies
    /\ p.src = q.src

FirstUnparseable == CHOOSE i \in Unparseable(origTree) :
                        \A j \in Unparseable(origTree) : i <= j

\* the detection reads the unparseable manifest: no readable manifest
\* listed before it has a scoped name
DetectionReadsUnparseable ==
    \A j \in Readable(origTree) :
        j < FirstUnparseable => ~IsScoped(origTree.packages[j].name)

RECURSIVE SubstitutedOnce(_, _, _, _)
SubstitutedOnce(s, oldTok, newTok, name) ==
    IF s = "" THEN ""
    ELSE IF StartsWith(s, oldTok)
         THEN newTok \o SubstitutedOnce(SubSeq(s, Len(oldTok) + 1, Len(s)),
                                        oldTok, newTok, name)
    ELSE IF StartsWith(s, "modern-fullstack-boilerplate")
         THEN name \o SubstitutedOnce(SubSeq(s, 29, Len(s)), oldTok, newTok, name)
    ELSE SubSeq(s, 1, 1) \o SubstitutedOnce(SubSeq(s, 2, Len(s)), oldTok, newTok, name)

\* C7: after a call that returns, every source file (.ts, .tsx, .js, .jsx)
\* under the src/ of a sub-package is its original content with every
\* occurrence of the old scope token replaced by exactly @newName/ and every
\* occurrence of modern-fullstack-boilerplate replaced by newName, nothing
\* else altered, for every valid newName. (Stated for the sub-packages that
\* have a readable manifest.)
C7_SourcesSubstituted ==
    FirstRunReturned =>
        \A i \in Readable(origTree) :
            origTree.packages[i].hasSrc =>
                \A f \in DOMAIN origTree.packages[i].src :
                    IsSourceFile(f) =>
                        packages[i].src[f] =
                            SubstitutedOnce(origTree.packages[i].src[f],
                                            DetectedOldToken, TargetToken, newName)

NoScopedName == \A i \in Readable(origTree) : ~IsScoped(origTree.packages[i].name)

OnlyRepoKeysMoved(before, after) ==
    /\ \A k \in DOMAIN before : ~StartsWith(k, "@repo/") => k \in DOMAIN after
    /\ \A k \in DOMAIN after : k \in DOMAIN before \/ StartsWith(k, TargetToken)

InvalidInput ==
    \/ cmd = "rename" /\ (~targetExists \/ ~ValidName(argName))
    \/ cmd = "create" /\ argName # "" /\ ~ValidName(argName)
    \/ cmd = "create" /\ newName # "" /\ newName \in siblings

Mutated == cloned \/ relocated \/ Tree # origTree

\* C5: in create and in rename an input validation error (a name that does
\* not match ^[a-z0-9-_]+$, a missing target directory for rename, an
\* existing target directory for create) ends the command with a non-zero
\* exit status before any mutation: no clone, no write, no folder rename,
\* renameProject not called.
C5_ValidationAbortsBeforeMutation ==
    InvalidInput => ~Mutated /\ rp = "idle" /\ cpc # "done"

Warnings == {"warn: inside the folder", "warn: directory already exists"}

\* C6: the rename command moves the folder to <parent>/<newName> only after
\* the renamer returned both times, when the target is not the working
\* directory and no entry named newName exists beside it; when the target is
\* the working directory or such an entry exists, the folder keeps its name,
\* a warning and no error is reported, and the rewriting has been applied.
C6_FolderRenamedOnlyWhenFree ==
    /\ relocated =>
          /\ cmd = "rename" /\ rp = "returned" /\ runs = 2
          /\ ~targetIsCwd
          /\ newName \notin (siblings \cup {origDir})
          /\ projectDir = newName
    /\ (/\ cmd = "rename" /\ cpc = "done" /\ rp = "returned"
        /\ (targetIsCwd \/ newName \in (siblings \cup {origDir}))) =>
          /\ ~relocated
          /\ projectDir = origDir
          /\ log \cap Warnings # {}
          /\ "fail: rename" \notin log
          /\ runs = 2
          /\ rootPkg.state = "ok" => rootPkg.name = newName
          /\ \A i \in Readable(origTree) :
                StartsWith(packages[i].name, "@" \o newName \o "/")

C6_Witness ==
    /\ cmd = "rename"
    /\ cpc = "done"
    /\ ~targetIsCwd
    /\ newName \in siblings
    /\ "warn: directory already exists" \in log
    /\ ~relocated
    /\ rootPkg.state = "ok"
    /\ rootPkg.name = newName
    /\ Readable(origTree) # {}

\* C9: an exception raised inside renameProject is caught by the command:
\* the process is not made to exit, the failure is reported, the rename
\* command moves no folder, and what was written before the failure stays.
C9_RenamerFailureCaught ==
    rp = "threw" =>
        /\ cpc \in {"run1", "run2", "done"}
        /\ cpc = "done" => "fail: rename" \in log
        /\ ~relocated
        /\ projectDir = (IF cmd = "create" THEN newName ELSE origDir)
        /\ Tree = thrownTree

C9_Witness ==
    /\ rp = "threw"
    /\ cmd = "rename"
    /\ cpc = "done"
    /\ origTree.root.state = "ok"
    /\ rootPkg.name = newName
    /\ rootPkg.name # origTree.root.name

(***************************************************************************)
(* Properties of getFiles, checked under SpecGetFiles.                     *)
(***************************************************************************)
RegularFiles == {Path(gfTree, i) : i \in {j \in 1..gfTree.n : ~gfTree.isDir[j]}}
Directories == {Path(gfTree, i) : i \in {j \in 1..gfTree.n : gfTree.isDir[j]}}

ListsEveryFileOnce ==
    gfState[1] = "done" =>
        LET list == gfResult[1]
        IN  /\ \A i \in 1..gfTree.n : gfState[i] = "done"
            /\ \A i, j \in DOMAIN list : i # j => list[i] # list[j]
            /\ {list[i] : i \in DOMAIN list} = RegularFiles
            /\ \A i \in DOMAIN list : list[i] \notin Directories

\* C10: on every finite tree and under every interleaving of the stat and
\* readdir completions, getFiles(dir) resolves, after all of them have
\* completed, to a flat list that holds the path of every regular file below
\* dir exactly once and no directory path.
C10_GetFilesListsEveryFileOnce ==
    [] ListsEveryFileOnce /\ <>(gfState[1] = "done")

C10_Witness ==
    /\ gfState[1] = "done"
    /\ Len(gfResult[1]) >= 2
    /\ \E i \in DOMAIN gfResult[1] : Len(gfResult[1][i]) = 3

====
